---- MODULE Spec2Model ----
(***************************************************************************)
(* A model of bfup's core: the Lexer of src/src/lex.rs (read_all_tokens,    *)
(* read_token, read_number, read_macro_definition, read_group, next_char)  *)
(* run over a lazily produced, fallible character stream, followed by the  *)
(* emitter of src/src/pre.rs (preprocess, preprocess_and_align).           *)
(*                                                                         *)
(* The recursion of the lexer is modelled by an explicit call stack of     *)
(* frames; `ret` holds the value a finished call hands to its caller.      *)
(***************************************************************************)
EXTENDS Integers, Sequences, FiniteSets, TLC

\* ------------------------------------------------------------------ bounds

\* The longest input (number of items the upstream iterator yields) of the
\* runs of Spec, and of the runs of SpecLong.
MaxLen == 4
MaxLenLong == 5

\* The width, in bits, of the model's usize.
UsizeBits == 4

\* The line width preprocess_and_align is run with.
LineWidth == 2

\* The longest top-level token sequence of the runs of SpecEmit.
MaxTokens == 3

\* The longest input of the runs of SpecMacro that begin with a macro
\* definition.
MaxLenMacro == 10

\* ------------------------------------------------------------- characters

NL == "\n"

\* The characters the model knows: the default symbols of config.rs, the
\* digits the inputs use, an unclassified letter and the newline.
Chars == {"+", "-", "<", ">", "[", "]", ".", ",", "(", ")", "#", "$", "\\",
          "0", "2", "x", NL}

\* char::is_ascii_digit, on the characters of the model.
IsAsciiDigit(ch) == ch \in {"0", "2"}

DigitValue(ch) == IF ch = "0" THEN 0 ELSE 2

\* An upstream failure (the Err(e) an input iterator may yield) and the end
\* of the stream (the iterator's None).
Fail == "<fail>"
END == "<end>"

\* Peekable's empty lookahead slot.
NoPeek == "<nopeek>"

\* ----------------------------------------------------------------- config

DEFAULT_OPERATORS == {"+", "-", "<", ">", "[", "]", ".", ","}
DEFAULT_GROUP_START_DELIMITER == "("
DEFAULT_GROUP_END_DELIMITER == ")"
DEFAULT_NUMBER_PREFIX == "#"
DEFAULT_MACRO_PREFIX == "$"
DEFAULT_ESCAPE_PREFIX == "\\"

Operator == "Operator"
GroupStartDelimiter == "GroupStartDelimiter"
GroupEndDelimiter == "GroupEndDelimiter"
NumberPrefix == "NumberPrefix"
MacroPrefix == "MacroPrefix"
EscapePrefix == "EscapePrefix"
NoField == "None"

\* Config::new: the operators are inserted first, then the five single
\* characters in order; a character that already has a field is an error.
\* The result is the values_to_fields map, a function on Chars with NoField
\* for the characters that have no role, or "NotUnique".
ConfigNew(operators, gs, ge, np, mp, ep) ==
  LET singles == <<gs, ge, np, mp, ep>>
      fields == <<GroupStartDelimiter, GroupEndDelimiter, NumberPrefix,
                  MacroPrefix, EscapePrefix>>
      clash == \E i \in 1..5 :
                 \/ singles[i] \in operators
                 \/ \E j \in 1..(i - 1) : singles[j] = singles[i]
  IN IF clash THEN "NotUnique"
     ELSE [ch \in Chars |->
             IF \E i \in 1..5 : singles[i] = ch
             THEN fields[CHOOSE i \in 1..5 : singles[i] = ch]
             ELSE IF ch \in operators THEN Operator ELSE NoField]

\* Config::default.
ConfigDefault ==
  ConfigNew(DEFAULT_OPERATORS, DEFAULT_GROUP_START_DELIMITER,
            DEFAULT_GROUP_END_DELIMITER, DEFAULT_NUMBER_PREFIX,
            DEFAULT_MACRO_PREFIX, DEFAULT_ESCAPE_PREFIX)

\* A second valid configuration, as the command line can build it: the roles
\* are moved to other characters and a digit is an operator.
ConfigSwapped == ConfigNew({"2", "x"}, ")", "(", "$", "#", "+")

\* The configurations the runs are checked with.
Configs == {ConfigDefault, ConfigSwapped}

\* Config::get_field.
get_field(cfg, ch) == cfg[ch]

\* Config::get_value, for the five single-character fields.
get_value(cfg, field) == CHOOSE ch \in Chars : cfg[ch] = field

\* ------------------------------------------------------- tokens and errors

Number(n) == [t |-> "Number", n |-> n]
OperatorTok(c) == [t |-> "Operator", c |-> c]
GroupTok(g) == [t |-> "Group", g |-> g]

ErrInput == [e |-> "Input"]
DelimiterUnopened(cfg, l, c) ==
  [e |-> "DelimiterUnopened", lineno |-> l, colno |-> c,
   group_start_delimiter |-> get_value(cfg, GroupStartDelimiter),
   group_end_delimiter |-> get_value(cfg, GroupEndDelimiter)]
DelimiterUnclosed(cfg, l, c) ==
  [e |-> "DelimiterUnclosed", lineno |-> l, colno |-> c,
   group_start_delimiter |-> get_value(cfg, GroupStartDelimiter),
   group_end_delimiter |-> get_value(cfg, GroupEndDelimiter)]
NumberMissing(cfg, l, c) ==
  [e |-> "NumberMissing", lineno |-> l, colno |-> c,
   number_prefix |-> get_value(cfg, NumberPrefix)]
MacroMissing(cfg, l, c) ==
  [e |-> "MacroMissing", lineno |-> l, colno |-> c,
   macro_prefix |-> get_value(cfg, MacroPrefix)]
GroupEmpty(cfg, l, c) ==
  [e |-> "GroupEmpty", lineno |-> l, colno |-> c,
   group_start_delimiter |-> get_value(cfg, GroupStartDelimiter),
   group_end_delimiter |-> get_value(cfg, GroupEndDelimiter)]
ErrGroup(errs) == [e |-> "Group", errs |-> errs]

\* The values a call returns: Ok(v), Err(e), and the None of an Option.
Ok(v) == [k |-> "Ok", v |-> v]
Err(e) == [k |-> "Err", v |-> e]
None == [k |-> "None"]
\* No call has returned since the last value was taken.
NoRet == [k |-> "NoRet"]

\* ------------------------------------------------------------------ state

VARIABLES
  config,              \* Lexer.config: the values_to_fields map of the Config
  alphabet,            \* the items the upstream iterator may yield in this run
  max_len,             \* the number of items after which the stream ends
  run,                 \* the entry point: "preprocess" or "preprocess_and_align"
  line_width,          \* preprocess_and_align's line_width (0 under preprocess)
  pulled,              \* the items the upstream iterator has yielded so far
  ended,               \* the upstream iterator has returned None
  peeked,              \* Peekable's lookahead slot: NoPeek, an item, or END
  macro_symbol_table,  \* Lexer.macro_symbol_table
  lineno,              \* Lexer.lineno
  colno,               \* Lexer.colno
  stack,               \* the call stack of the lexer, innermost frame last
  ret,                 \* the value the last finished call returned, or NoRet
  phase,               \* "lex", "lexed" (read_all_tokens has returned), "done"
  lexed,               \* what read_all_tokens returned (NoRet before it has)
  output,              \* the bytes written to the output sink
  result               \* what preprocess returned (NoRet before it has)

vars == <<config, alphabet, max_len, run, line_width, pulled, ended, peeked,
          macro_symbol_table, lineno, colno, stack, ret, phase, lexed,
          output, result>>

\* The items of the runs of Spec, and those of the longer runs of SpecLong.
AlphabetLex == {"+", "(", ")", "#", "$", "\\", "2", "x", Fail}
AlphabetLong == {"+", "(", ")", "#", "$", "\\"}

\* HashMap::get's None: the character has no entry in the macro table.
Unbound == [t |-> "Unbound"]

\* The frames of the call stack.
ReadAllTokensFrame(tokens, errors) ==
  [fn |-> "read_all_tokens", tokens |-> tokens, errors |-> errors]
ReadTokenFrame(pc) == [fn |-> "read_token", pc |-> pc]
ReadNumberFrame(number_string) ==
  [fn |-> "read_number", number_string |-> number_string]
ReadMacroDefinitionFrame(pc, macro_symbol) ==
  [fn |-> "read_macro_definition", pc |-> pc, macro_symbol |-> macro_symbol]
ReadGroupFrame(group_tokens, errors) ==
  [fn |-> "read_group", group_tokens |-> group_tokens, errors |-> errors]

\* Lexer::new, followed by the call of read_all_tokens that preprocess and
\* preprocess_and_align make first.
InitLexer ==
  /\ pulled = <<>>
  /\ ended = FALSE
  /\ peeked = NoPeek
  /\ macro_symbol_table = [ch \in Chars |-> Unbound]
  /\ lineno = 1
  /\ colno = 0
  /\ stack = <<ReadAllTokensFrame(<<>>, <<>>)>>
  /\ ret = NoRet
  /\ phase = "lex"
  /\ lexed = NoRet
  /\ output = <<>>
  /\ result = NoRet

Init ==
  /\ config \in Configs
  /\ alphabet = AlphabetLex
  /\ max_len = MaxLen
  /\ run \in {"preprocess", "preprocess_and_align"}
  /\ line_width = IF run = "preprocess_and_align" THEN LineWidth ELSE 0
  /\ InitLexer

\* Longer runs over fewer characters, under the default configuration.
InitLong ==
  /\ config = ConfigDefault
  /\ alphabet = AlphabetLong
  /\ max_len = MaxLenLong
  /\ run \in {"preprocess", "preprocess_and_align"}
  /\ line_width = IF run = "preprocess_and_align" THEN LineWidth ELSE 0
  /\ InitLexer

\* ------------------------------------------------------------ the stream

Top == stack[Len(stack)]
Callers == SubSeq(stack, 1, Len(stack) - 1)
InFrame(fn) == phase = "lex" /\ Len(stack) > 0 /\ Top.fn = fn

\* What the upstream iterator may yield next: nothing once it has ended, and
\* the end once max_len items have been yielded.
Upstream ==
  IF ended \/ Len(pulled) >= max_len THEN {END} ELSE alphabet \cup {END}

\* `it` is the front item of char_iter: the one in the lookahead slot, or
\* else the next one of the upstream iterator, which is then pulled.
Fetch(it) ==
  IF peeked # NoPeek
  THEN it = peeked /\ UNCHANGED <<pulled, ended>>
  ELSE /\ it \in Upstream
       /\ pulled' = IF it = END THEN pulled ELSE Append(pulled, it)
       /\ ended' = (it = END)

\* next_char: the position after the item `it` has been taken.
LinenoAfter(it) == IF it = NL THEN lineno + 1 ELSE lineno
ColnoAfter(it) == IF it = NL THEN 0 ELSE colno + 1

\* next_char: what it returns for the item `it`.
NextCharResult(it) ==
  IF it = END THEN None
  ELSE IF it = Fail THEN Err(ErrInput)
  ELSE Ok(it)

\* next_char, taking the item `it` from char_iter.
next_char(it) ==
  /\ Fetch(it)
  /\ peeked' = NoPeek
  /\ lineno' = LinenoAfter(it)
  /\ colno' = ColnoAfter(it)

\* A call returns v to the frame below.
Return(v) == stack' = Callers /\ ret' = v
\* The top frame becomes `frame` and calls `callee`.
Call(frame, callee) ==
  stack' = Append(Append(Callers, frame), callee) /\ ret' = NoRet
\* The top frame becomes `frame` and goes on.
Goto(frame) == stack' = Append(Callers, frame) /\ ret' = NoRet

Items == Chars \cup {Fail, END}

\* A callee has returned and its value has not been taken yet.
HasRet == ret.k # "NoRet"

\* -------------------------------------------------------------- read_token

\* A variant of ReadTokenArm that classifies the character first and looks
\* it up in the macro table only when it has no role.
ReadTokenArmRoleFirst(table, cfg, it) ==
  IF it = END THEN "end"
  ELSE IF it = Fail THEN "input"
  ELSE IF get_field(cfg, it) # NoField THEN get_field(cfg, it)
  ELSE IF table[it] # Unbound THEN "macro"
  ELSE NoField

\* A variant of ReadTokenArm that takes a character with no role for an
\* operator.
ReadTokenArmCopyAll(table, cfg, it) ==
  IF it = END THEN "end"
  ELSE IF it = Fail THEN "input"
  ELSE IF table[it] # Unbound THEN "macro"
  ELSE IF get_field(cfg, it) = NoField THEN Operator
  ELSE get_field(cfg, it)

\* read_token, lines 184-224: the arm taken for the item next_char took.
ReadTokenArm(table, cfg, it) ==
  IF it = END THEN "end"
  ELSE IF it = Fail THEN "input"
  ELSE IF table[it] # Unbound THEN "macro"
  ELSE get_field(cfg, it)

\* read_token's loop head: take a character and act on it.
ReadToken ==
  /\ InFrame("read_token") /\ Top.pc = "loop"
  /\ \E it \in Items :
       /\ next_char(it)
       /\ LET arm == ReadTokenArm(macro_symbol_table, config, it) IN
          CASE arm = "end" -> Return(None)
            [] arm = "input" -> Return(Err(ErrInput))
            [] arm = "macro" -> Return(Ok(macro_symbol_table[it]))
            [] arm = EscapePrefix -> Goto(ReadTokenFrame("escape"))
            [] arm = NumberPrefix ->
                 Call(ReadTokenFrame("number"), ReadNumberFrame(<<>>))
            [] arm = MacroPrefix ->
                 Call(ReadTokenFrame("macro"),
                      ReadMacroDefinitionFrame("symbol", ""))
            [] arm = GroupStartDelimiter ->
                 Call(ReadTokenFrame("group"), ReadGroupFrame(<<>>, <<>>))
            [] arm = GroupEndDelimiter ->
                 Return(Err(DelimiterUnopened(config, lineno', colno')))
            [] arm = Operator -> Return(Ok(OperatorTok(it)))
            [] arm = NoField -> Goto(ReadTokenFrame("loop"))
  /\ UNCHANGED <<config, alphabet, max_len, run, line_width, macro_symbol_table,
                 phase, lexed, output, result>>

\* A variant of ReadTokenEscape that takes nothing from the stream.
ReadTokenEscapeNoSkip ==
  /\ InFrame("read_token") /\ Top.pc = "escape"
  /\ Goto(ReadTokenFrame("loop"))
  /\ UNCHANGED <<config, alphabet, max_len, run, line_width, pulled, ended,
                 peeked, macro_symbol_table, lineno, colno, phase, lexed,
                 output, result>>

\* read_token's EscapePrefix arm, lines 195-199: the next item is taken and
\* what next_char returns for it is dropped.
ReadTokenEscape ==
  /\ InFrame("read_token") /\ Top.pc = "escape"
  /\ \E it \in Items : next_char(it)
  /\ Goto(ReadTokenFrame("loop"))
  /\ UNCHANGED <<config, alphabet, max_len, run, line_width, macro_symbol_table,
                 phase, lexed, output, result>>

Continue == [k |-> "Continue"]

\* read_token, lines 200-211: what it does with the value its callee
\* (read_number, read_macro_definition or read_group) returned. "continue" is
\* the next round of the loop.
ReadTokenAfter(pc, r) ==
  IF r.k = "Err" THEN Err(r.v)
  ELSE CASE pc = "number" -> Ok(Number(r.v))
         [] pc = "macro" -> Continue
         [] pc = "group" -> Ok(GroupTok(r.v))

ReadTokenResume ==
  /\ InFrame("read_token") /\ Top.pc \in {"number", "macro", "group"}
  /\ HasRet
  /\ LET after == ReadTokenAfter(Top.pc, ret) IN
       IF after.k = "Continue" THEN Goto(ReadTokenFrame("loop"))
       ELSE Return(after)
  /\ UNCHANGED <<config, alphabet, max_len, run, line_width, pulled, ended, peeked,
                 macro_symbol_table, lineno, colno, phase, lexed, output,
                 result>>

\* ------------------------------------------------------------- read_number

UsizeMax == 2 ^ UsizeBits - 1

\* A variant of ParseFrom with wrapping arithmetic: a value above usize::MAX
\* is reduced modulo 2^UsizeBits.
RECURSIVE ParseFromWrapping(_, _, _)
ParseFromWrapping(number_string, i, acc) ==
  IF i > Len(number_string) THEN Ok(acc)
  ELSE ParseFromWrapping(number_string, i + 1,
         (acc * 10 + DigitValue(number_string[i])) % (UsizeMax + 1))

\* str::parse::<usize> on a string of ASCII digits: the empty string and a
\* value above usize::MAX are errors (the value is built digit by digit with
\* checked arithmetic). The result is Ok(n) or "ParseIntError".
RECURSIVE ParseFrom(_, _, _)
ParseFrom(number_string, i, acc) ==
  IF i > Len(number_string) THEN Ok(acc)
  ELSE LET v == acc * 10 + DigitValue(number_string[i]) IN
       IF v > UsizeMax THEN [k |-> "ParseIntError"]
       ELSE ParseFrom(number_string, i + 1, v)

ParseUsize(number_string) ==
  IF Len(number_string) = 0 THEN [k |-> "ParseIntError"]
  ELSE ParseFrom(number_string, 1, 0)

\* A variant of ReadNumberResult that asks for more than one digit.
ReadNumberResultOffByOne(cfg, number_string, l, c) ==
  LET parsed == ParseUsize(number_string) IN
  IF parsed.k = "Ok" /\ Len(number_string) > 1 THEN Ok(parsed.v)
  ELSE Err(NumberMissing(cfg, l, c))

\* read_number, lines 248-256: the value returned once the loop is left, at
\* position (l, c).
ReadNumberResult(cfg, number_string, l, c) ==
  LET parsed == ParseUsize(number_string) IN
  IF parsed.k = "Ok" THEN Ok(parsed.v) ELSE Err(NumberMissing(cfg, l, c))

\* One round of read_number's loop, lines 234-246: peek; a character that is
\* no digit stays in the lookahead slot and ends the loop; anything else is
\* taken by next_char.
ReadNumber ==
  /\ InFrame("read_number")
  /\ \E it \in Items :
       /\ Fetch(it)
       /\ IF it \in Chars /\ ~IsAsciiDigit(it)
          THEN /\ peeked' = it
               /\ UNCHANGED <<lineno, colno>>
               /\ Return(ReadNumberResult(config, Top.number_string,
                                          lineno, colno))
          ELSE /\ peeked' = NoPeek
               /\ lineno' = LinenoAfter(it)
               /\ colno' = ColnoAfter(it)
               /\ CASE it = Fail -> Return(Err(ErrInput))
                    [] it = END ->
                         Return(ReadNumberResult(config, Top.number_string,
                                                 lineno', colno'))
                    [] OTHER ->
                         Goto(ReadNumberFrame(Append(Top.number_string, it)))
  /\ UNCHANGED <<config, alphabet, max_len, run, line_width, macro_symbol_table,
                 phase, lexed, output, result>>

\* --------------------------------------------------- read_macro_definition

\* read_macro_definition, lines 261-271: the macro's symbol is taken.
ReadMacroSymbol ==
  /\ InFrame("read_macro_definition") /\ Top.pc = "symbol"
  /\ \E it \in Items :
       /\ next_char(it)
       /\ CASE it = END -> Return(Err(MacroMissing(config, lineno', colno')))
            [] it = Fail -> Return(Err(ErrInput))
            [] OTHER -> Call(ReadMacroDefinitionFrame("body", it),
                             ReadTokenFrame("loop"))
  /\ UNCHANGED <<config, alphabet, max_len, run, line_width, macro_symbol_table,
                 phase, lexed, output, result>>

\* read_macro_definition, lines 273-287: the value returned for what
\* read_token gave as the macro's body.
ReadMacroBodyResult(cfg, r, l, c) ==
  CASE r.k = "Ok" -> Ok("unit")
    [] r.k = "Err" -> Err(r.v)
    [] r.k = "None" -> Err(MacroMissing(cfg, l, c))

\* A variant of Insert for a table of references: the symbols bound to the
\* token the symbol had follow it to the new token.
InsertAliased(table, symbol, token) ==
  [ch \in DOMAIN table |->
     IF ch = symbol \/ (table[symbol] # Unbound /\ table[ch] = table[symbol])
     THEN token ELSE table[ch]]

\* HashMap::insert.
Insert(table, symbol, token) == [table EXCEPT ![symbol] = token]

ReadMacroBody ==
  /\ InFrame("read_macro_definition") /\ Top.pc = "body"
  /\ HasRet
  /\ macro_symbol_table' =
       IF ret.k = "Ok"
       THEN Insert(macro_symbol_table, Top.macro_symbol, ret.v)
       ELSE macro_symbol_table
  /\ Return(ReadMacroBodyResult(config, ret, lineno, colno))
  /\ UNCHANGED <<config, alphabet, max_len, run, line_width, pulled, ended, peeked,
                 lineno, colno, phase, lexed, output, result>>

\* -------------------------------------------------------------- read_group

\* A variant of ReadGroupArm without the DelimiterUnclosed arm: the end of
\* the stream ends the group like its closing delimiter.
ReadGroupArmNoUnclosed(r) ==
  CASE r.k = "Ok" -> "token"
    [] r.k = "Err" ->
         IF r.v.e = "DelimiterUnopened" THEN "end" ELSE "error"
    [] r.k = "None" -> "end"

\* A variant of ReadGroupArm without the DelimiterUnopened arm: the closing
\* delimiter is an error like any other.
ReadGroupArmNoEnd(r) ==
  CASE r.k = "Ok" -> "token"
    [] r.k = "Err" -> "error"
    [] r.k = "None" -> "unclosed"

\* read_group, lines 297-309: the arm of the match for what read_token
\* returned.
ReadGroupArm(r) ==
  CASE r.k = "Ok" -> "token"
    [] r.k = "Err" ->
         IF r.v.e = "DelimiterUnopened" THEN "end" ELSE "error"
    [] r.k = "None" -> "unclosed"

\* A variant of ReadGroupResult that looks at the tokens first and has no
\* GroupEmpty: a group without tokens returns its error list, empty or not.
ReadGroupResultTokensFirst(cfg, group_tokens, errors, l, c) ==
  IF Len(group_tokens) > 0 THEN Ok(group_tokens) ELSE Err(ErrGroup(errors))

\* A variant of ReadGroupResult without GroupEmpty: a group with no error
\* returns its tokens, none included.
ReadGroupResultNoEmpty(cfg, group_tokens, errors, l, c) ==
  IF Len(errors) > 0 THEN Err(ErrGroup(errors)) ELSE Ok(group_tokens)

\* read_group, lines 313-326: the value returned once the loop is left.
ReadGroupResult(cfg, group_tokens, errors, l, c) ==
  IF Len(errors) > 0 THEN Err(ErrGroup(errors))
  ELSE IF Len(group_tokens) > 0 THEN Ok(group_tokens)
  ELSE Err(GroupEmpty(cfg, l, c))

\* The head of read_group's loop: call read_token.
ReadGroupCall ==
  /\ InFrame("read_group") /\ ~HasRet
  /\ Call(Top, ReadTokenFrame("loop"))
  /\ UNCHANGED <<config, alphabet, max_len, run, line_width, pulled, ended, peeked,
                 macro_symbol_table, lineno, colno, phase, lexed, output,
                 result>>

\* read_group takes what read_token returned.
ReadGroup ==
  /\ InFrame("read_group") /\ HasRet
  /\ LET arm == ReadGroupArm(ret)
         unclosed == Append(Top.errors,
                            DelimiterUnclosed(config, lineno, colno))
     IN CASE arm = "token" ->
               Goto(ReadGroupFrame(Append(Top.group_tokens, ret.v),
                                   Top.errors))
          [] arm = "end" ->
               Return(ReadGroupResult(config, Top.group_tokens, Top.errors,
                                      lineno, colno))
          [] arm = "error" ->
               Goto(ReadGroupFrame(Top.group_tokens,
                                   Append(Top.errors, ret.v)))
          [] arm = "unclosed" ->
               Return(ReadGroupResult(config, Top.group_tokens, unclosed,
                                      lineno, colno))
  /\ UNCHANGED <<config, alphabet, max_len, run, line_width, pulled, ended, peeked,
                 macro_symbol_table, lineno, colno, phase, lexed, output,
                 result>>

\* ---------------------------------------------------------------- emitter

\* The sink and the line-length counter the walk threads through.
Sink(out, line_len) == [out |-> out, line_len |-> line_len]

\* A variant of AfterWrite that ends the line when the counter is at the
\* width or beyond it.
AfterWriteAtLeast(aligned, line_max_len, sink) ==
  IF ~aligned THEN sink
  ELSE IF sink.line_len + 1 >= line_max_len
       THEN Sink(Append(sink.out, NL), 0)
       ELSE Sink(sink.out, sink.line_len + 1)

\* The statement run after an operator has been written: nothing under
\* preprocess (line 76); under preprocess_and_align (lines 98-102) the
\* counter is incremented and a full line is ended.
AfterWrite(aligned, line_max_len, sink) ==
  IF ~aligned THEN sink
  ELSE IF sink.line_len + 1 = line_max_len
       THEN Sink(Append(sink.out, NL), 0)
       ELSE Sink(sink.out, sink.line_len + 1)

\* write_token_iter, lines 28-46: the walk of tokens[i..] with the given
\* multiplier; repeat! of a group's walk and of an operator's write.
RECURSIVE WriteFrom(_, _, _, _, _, _)
RECURSIVE RepeatGroup(_, _, _, _, _)
RECURSIVE RepeatOperator(_, _, _, _, _)

RepeatGroup(group, times, aligned, line_max_len, sink) ==
  IF times = 0 THEN sink
  ELSE RepeatGroup(group, times - 1, aligned, line_max_len,
                   WriteFrom(group, 1, 1, aligned, line_max_len, sink))

RepeatOperator(operator, times, aligned, line_max_len, sink) ==
  IF times = 0 THEN sink
  ELSE RepeatOperator(operator, times - 1, aligned, line_max_len,
         AfterWrite(aligned, line_max_len,
                    Sink(Append(sink.out, operator), sink.line_len)))

WriteFrom(tokens, i, multiplier, aligned, line_max_len, sink) ==
  IF i > Len(tokens) THEN sink
  ELSE LET token == tokens[i] IN
       CASE token.t = "Group" ->
              WriteFrom(tokens, i + 1, 1, aligned, line_max_len,
                RepeatGroup(token.g, multiplier, aligned, line_max_len, sink))
         [] token.t = "Operator" ->
              WriteFrom(tokens, i + 1, 1, aligned, line_max_len,
                RepeatOperator(token.c, multiplier, aligned, line_max_len,
                               sink))
         [] token.t = "Number" ->
              WriteFrom(tokens, i + 1, token.n, aligned, line_max_len, sink)

write_token_iter(tokens, aligned, line_max_len, sink) ==
  WriteFrom(tokens, 1, 1, aligned, line_max_len, sink)

\* --------------------------------------------------------- read_all_tokens

\* A variant of ReadAllTokensArm that returns at the first error of any kind.
ReadAllTokensArmFirstError(r) ==
  CASE r.k = "Ok" -> "token"
    [] r.k = "Err" -> "input"
    [] r.k = "None" -> "end"

\* read_all_tokens, lines 166-171: the arm of the match for what read_token
\* returned.
ReadAllTokensArm(r) ==
  CASE r.k = "Ok" -> "token"
    [] r.k = "Err" -> IF r.v.e = "Input" THEN "input" ELSE "error"
    [] r.k = "None" -> "end"

\* read_all_tokens, lines 174-178: the value returned once the loop is left.
ReadAllTokensResult(tokens, errors) ==
  IF Len(errors) > 0 THEN Err(ErrGroup(errors)) ELSE Ok(tokens)

\* The head of read_all_tokens' loop: call read_token.
ReadAllTokensCall ==
  /\ InFrame("read_all_tokens") /\ ~HasRet
  /\ Call(Top, ReadTokenFrame("loop"))
  /\ UNCHANGED <<config, alphabet, max_len, run, line_width, pulled, ended, peeked,
                 macro_symbol_table, lineno, colno, phase, lexed, output,
                 result>>

\* read_all_tokens returns v to preprocess.
Finish(v) ==
  /\ stack' = <<>>
  /\ ret' = NoRet
  /\ lexed' = v
  /\ phase' = "lexed"

\* A variant of ReadAllTokens that writes each top-level token to the sink
\* as soon as read_token has returned it.
ReadAllTokensStreaming ==
  /\ InFrame("read_all_tokens") /\ HasRet
  /\ LET arm == ReadAllTokensArm(ret) IN
     CASE arm = "input" -> Finish(Err(ret.v)) /\ UNCHANGED output
       [] arm = "token" ->
            /\ Goto(ReadAllTokensFrame(Append(Top.tokens, ret.v), Top.errors))
            /\ output' = write_token_iter(<<ret.v>>, FALSE, 0,
                                          Sink(output, 0)).out
            /\ UNCHANGED <<lexed, phase>>
       [] arm = "error" ->
            /\ Goto(ReadAllTokensFrame(Top.tokens, Append(Top.errors, ret.v)))
            /\ UNCHANGED <<lexed, phase, output>>
       [] arm = "end" ->
            /\ Finish(ReadAllTokensResult(Top.tokens, Top.errors))
            /\ UNCHANGED output
  /\ UNCHANGED <<config, alphabet, max_len, run, line_width, pulled, ended,
                 peeked, macro_symbol_table, lineno, colno, result>>

\* read_all_tokens takes what read_token returned.
ReadAllTokens ==
  /\ InFrame("read_all_tokens") /\ HasRet
  /\ LET arm == ReadAllTokensArm(ret) IN
     CASE arm = "input" -> Finish(Err(ret.v))
       [] arm = "token" ->
            /\ Goto(ReadAllTokensFrame(Append(Top.tokens, ret.v), Top.errors))
            /\ UNCHANGED <<lexed, phase>>
       [] arm = "error" ->
            /\ Goto(ReadAllTokensFrame(Top.tokens, Append(Top.errors, ret.v)))
            /\ UNCHANGED <<lexed, phase>>
       [] arm = "end" -> Finish(ReadAllTokensResult(Top.tokens, Top.errors))
  /\ UNCHANGED <<config, alphabet, max_len, run, line_width, pulled, ended, peeked,
                 macro_symbol_table, lineno, colno, output, result>>

\* preprocess, lines 78-81, and preprocess_and_align, lines 105-108, once
\* read_all_tokens has returned: an error is handed to the caller by `?`;
\* otherwise the tokens are written to the sink.
Emit ==
  /\ phase = "lexed"
  /\ lexed.k = "Ok"
  /\ output' = write_token_iter(lexed.v, run = "preprocess_and_align",
                                line_width, Sink(output, 0)).out
  /\ result' = Ok("unit")
  /\ phase' = "done"
  /\ UNCHANGED <<config, alphabet, max_len, run, line_width, pulled, ended, peeked,
                 macro_symbol_table, lineno, colno, stack, ret, lexed>>

Propagate ==
  /\ phase = "lexed"
  /\ lexed.k = "Err"
  /\ result' = Err(lexed.v)
  /\ phase' = "done"
  /\ UNCHANGED <<config, alphabet, max_len, run, line_width, pulled, ended, peeked,
                 macro_symbol_table, lineno, colno, stack, ret, lexed,
                 output>>

\* ------------------------------------------ the emitter, step by step

\* preprocess_and_align's activation: it owns the line-length counter that
\* every write_token_iter call borrows (the `&mut 0` of line 106). Under
\* preprocess there is no counter and line_len stays 0.
PreprocessFrame(line_len) == [fn |-> "preprocess", line_len |-> line_len]

\* An activation of write_token_iter: the sequence it walks, the index of
\* the token the `for` is at, its local multiplier, where it is ("for": about
\* to take tokens[i]; "repeat": inside repeat! for tokens[i]) and the number
\* of rounds of repeat! left.
WriteTokenIterFrame(tokens, i, multiplier, pc, left) ==
  [fn |-> "write_token_iter", tokens |-> tokens, i |-> i,
   multiplier |-> multiplier, pc |-> pc, left |-> left]

\* write_token_iter is entered, line 28: `let mut multiplier: usize = 1`.
WriteTokenIterEntry(tokens) == WriteTokenIterFrame(tokens, 1, 1, "for", 0)

InWrite(pc) ==
  /\ phase = "emit"
  /\ Len(stack) > 1
  /\ Top.fn = "write_token_iter"
  /\ Top.pc = pc

\* A variant of WriteTokenIterFor in which a number multiplies the
\* multiplier instead of replacing it.
WriteTokenIterForAccumulate ==
  /\ InWrite("for")
  /\ Top.i <= Len(Top.tokens)
  /\ LET token == Top.tokens[Top.i] IN
     IF token.t = "Number"
     THEN stack' = Append(Callers,
            WriteTokenIterFrame(Top.tokens, Top.i + 1,
                                Top.multiplier * token.n, "for", 0))
     ELSE stack' = Append(Callers,
            WriteTokenIterFrame(Top.tokens, Top.i, Top.multiplier, "repeat",
                                Top.multiplier))
  /\ UNCHANGED <<config, alphabet, max_len, run, line_width, pulled, ended,
                 peeked, macro_symbol_table, lineno, colno, ret, phase,
                 lexed, output, result>>

\* The `for` of line 29 takes the next token and the match of line 30
\* begins: a number sets the multiplier (line 43), a group or an operator
\* starts repeat! with the multiplier as its number of rounds.
WriteTokenIterFor ==
  /\ InWrite("for")
  /\ Top.i <= Len(Top.tokens)
  /\ LET token == Top.tokens[Top.i] IN
     IF token.t = "Number"
     THEN stack' = Append(Callers,
            WriteTokenIterFrame(Top.tokens, Top.i + 1, token.n, "for", 0))
     ELSE stack' = Append(Callers,
            WriteTokenIterFrame(Top.tokens, Top.i, Top.multiplier, "repeat",
                                Top.multiplier))
  /\ UNCHANGED <<config, alphabet, max_len, run, line_width, pulled, ended,
                 peeked, macro_symbol_table, lineno, colno, ret, phase,
                 lexed, output, result>>

\* One round of repeat! for an operator, lines 36-39: the operator is
\* written and the statement after the write is run on the shared counter.
WriteOperator ==
  /\ InWrite("repeat")
  /\ Top.left > 0
  /\ Top.tokens[Top.i].t = "Operator"
  /\ LET sink == AfterWrite(run = "preprocess_and_align", line_width,
                   Sink(Append(output, Top.tokens[Top.i].c),
                        stack[1].line_len))
     IN /\ output' = sink.out
        /\ stack' = [stack EXCEPT
                       ![1] = PreprocessFrame(sink.line_len),
                       ![Len(stack)] =
                         WriteTokenIterFrame(Top.tokens, Top.i,
                           Top.multiplier, "repeat", Top.left - 1)]
  /\ UNCHANGED <<config, alphabet, max_len, run, line_width, pulled, ended,
                 peeked, macro_symbol_table, lineno, colno, ret, phase,
                 lexed, result>>

\* A variant of WriteGroup in which the call for the group counts the line's
\* length from 0 again.
WriteGroupFreshCounter ==
  /\ InWrite("repeat")
  /\ Top.left > 0
  /\ Top.tokens[Top.i].t = "Group"
  /\ stack' = Append(Append([Callers EXCEPT ![1] = PreprocessFrame(0)],
                 WriteTokenIterFrame(Top.tokens, Top.i, Top.multiplier,
                                     "repeat", Top.left - 1)),
                 WriteTokenIterEntry(Top.tokens[Top.i].g))
  /\ UNCHANGED <<config, alphabet, max_len, run, line_width, pulled, ended,
                 peeked, macro_symbol_table, lineno, colno, ret, phase,
                 lexed, output, result>>

\* A variant of WriteGroup in which the walk of the group starts with the
\* multiplier of the walk that calls it.
WriteGroupInheritMultiplier ==
  /\ InWrite("repeat")
  /\ Top.left > 0
  /\ Top.tokens[Top.i].t = "Group"
  /\ stack' = Append(Append(Callers,
                 WriteTokenIterFrame(Top.tokens, Top.i, Top.multiplier,
                                     "repeat", Top.left - 1)),
                 WriteTokenIterFrame(Top.tokens[Top.i].g, 1, Top.multiplier,
                                     "for", 0))
  /\ UNCHANGED <<config, alphabet, max_len, run, line_width, pulled, ended,
                 peeked, macro_symbol_table, lineno, colno, ret, phase,
                 lexed, output, result>>

\* One round of repeat! for a group, line 32: write_token_iter is called on
\* the group's tokens.
WriteGroup ==
  /\ InWrite("repeat")
  /\ Top.left > 0
  /\ Top.tokens[Top.i].t = "Group"
  /\ stack' = Append(Append(Callers,
                 WriteTokenIterFrame(Top.tokens, Top.i, Top.multiplier,
                                     "repeat", Top.left - 1)),
                 WriteTokenIterEntry(Top.tokens[Top.i].g))
  /\ UNCHANGED <<config, alphabet, max_len, run, line_width, pulled, ended,
                 peeked, macro_symbol_table, lineno, colno, ret, phase,
                 lexed, output, result>>

\* A variant of WriteTokenIterReset that leaves the multiplier as it is.
WriteTokenIterResetKeep ==
  /\ InWrite("repeat")
  /\ Top.left = 0
  /\ stack' = Append(Callers,
                WriteTokenIterFrame(Top.tokens, Top.i + 1, Top.multiplier,
                                    "for", 0))
  /\ UNCHANGED <<config, alphabet, max_len, run, line_width, pulled, ended,
                 peeked, macro_symbol_table, lineno, colno, ret, phase,
                 lexed, output, result>>

\* repeat! is over, lines 33 and 40: `multiplier = 1`, and the `for` goes on.
WriteTokenIterReset ==
  /\ InWrite("repeat")
  /\ Top.left = 0
  /\ stack' = Append(Callers,
                WriteTokenIterFrame(Top.tokens, Top.i + 1, 1, "for", 0))
  /\ UNCHANGED <<config, alphabet, max_len, run, line_width, pulled, ended,
                 peeked, macro_symbol_table, lineno, colno, ret, phase,
                 lexed, output, result>>

\* The `for` is over, line 47: write_token_iter returns Ok(()), to the
\* repeat! of the enclosing walk or to preprocess, which returns Ok(()).
WriteTokenIterReturn ==
  /\ InWrite("for")
  /\ Top.i > Len(Top.tokens)
  /\ stack' = Callers
  /\ IF Len(stack) = 2
     THEN phase' = "done" /\ result' = Ok("unit")
     ELSE UNCHANGED <<phase, result>>
  /\ UNCHANGED <<config, alphabet, max_len, run, line_width, pulled, ended,
                 peeked, macro_symbol_table, lineno, colno, ret, lexed,
                 output>>

\* ---------------------------------------------------------- specification

Next ==
  \/ ReadAllTokensCall
  \/ ReadAllTokens
  \/ ReadToken
  \/ ReadTokenEscape
  \/ ReadTokenResume
  \/ ReadNumber
  \/ ReadMacroSymbol
  \/ ReadMacroBody
  \/ ReadGroupCall
  \/ ReadGroup
  \/ Emit
  \/ Propagate

Spec == Init /\ [][Next]_vars

SpecLong == InitLong /\ [][Next]_vars

\* The emitter alone, on token sequences as read_all_tokens returns them:
\* operators, numbers, and groups (none empty) up to two levels deep.
EmitTokens ==
  {OperatorTok("+"), OperatorTok("-"), Number(0), Number(2), Number(3),
   GroupTok(<<OperatorTok("+"), OperatorTok("-")>>),
   GroupTok(<<OperatorTok("-"), Number(2)>>),
   GroupTok(<<Number(3), OperatorTok("+")>>),
   GroupTok(<<Number(2),
              GroupTok(<<OperatorTok("+"), Number(3), OperatorTok("-")>>)>>)}

TokenSeqs == UNION {[1..k -> EmitTokens] : k \in 0..MaxTokens}

\* The tokens of "#5+-#2(>#2(--#0(+++)))", the input of the test
\* preprocess_multiplier.
MultiplierExample ==
  <<Number(5), OperatorTok("+"), OperatorTok("-"), Number(2),
    GroupTok(<<OperatorTok(">"), Number(2),
               GroupTok(<<OperatorTok("-"), OperatorTok("-"), Number(0),
                          GroupTok(<<OperatorTok("+"), OperatorTok("+"),
                                     OperatorTok("+")>>)>>)>>)>>

\* The tokens of "#6(#6(+))" and the line width of the test
\* preprocess_with_alignment.
AlignmentExample ==
  <<Number(6), GroupTok(<<Number(6), GroupTok(<<OperatorTok("+")>>)>>)>>
AlignmentExampleWidth == 6

\* Errors as read_all_tokens returns them: the aggregate it returns for
\* "()" and for "#", and an input failure.
LexErrors ==
  {ErrGroup(<<GroupEmpty(ConfigDefault, 1, 2)>>),
   ErrGroup(<<NumberMissing(ConfigDefault, 1, 2)>>)}

\* preprocess or preprocess_and_align once read_all_tokens has returned and
\* the lexer has been dropped: with Ok(tokens), write_token_iter is called
\* on the tokens, with a counter that starts at 0; with an error, `?` is
\* about to return it.
InitEmit ==
  /\ config = ConfigDefault
  /\ alphabet = {}
  /\ max_len = 0
  /\ pulled = <<>>
  /\ ended = FALSE
  /\ peeked = NoPeek
  /\ macro_symbol_table = [ch \in Chars |-> Unbound]
  /\ lineno = 1
  /\ colno = 0
  /\ ret = NoRet
  /\ \/ /\ run \in {"preprocess", "preprocess_and_align"}
        /\ line_width \in IF run = "preprocess_and_align"
                          THEN {0, LineWidth} ELSE {0}
        /\ lexed \in {Ok(tokens) : tokens \in TokenSeqs}
     \/ /\ run = "preprocess"
        /\ line_width = 0
        /\ lexed = Ok(MultiplierExample)
     \/ /\ run = "preprocess_and_align"
        /\ line_width = AlignmentExampleWidth
        /\ lexed = Ok(AlignmentExample)
     \/ /\ run \in {"preprocess", "preprocess_and_align"}
        /\ line_width \in IF run = "preprocess_and_align"
                          THEN {0, LineWidth} ELSE {0}
        /\ lexed \in {Err(e) : e \in LexErrors}
  /\ stack = IF lexed.k = "Ok"
             THEN <<PreprocessFrame(0), WriteTokenIterEntry(lexed.v)>>
             ELSE <<>>
  /\ phase = IF lexed.k = "Ok" THEN "emit" ELSE "lexed"
  /\ output = <<>>
  /\ result = NoRet

NextEmit ==
  \/ WriteTokenIterFor
  \/ WriteOperator
  \/ WriteGroup
  \/ WriteTokenIterReset
  \/ WriteTokenIterReturn
  \/ Propagate

SpecEmit == InitEmit /\ [][NextEmit]_vars

\* Runs with macro definitions. The lexer after it has read "$x+" under the
\* default configuration: x is bound to Operator('+'), read_macro_definition
\* has returned and read_token is at the head of its loop again.
AfterFirstDefinition ==
  /\ config = ConfigDefault
  /\ pulled = <<"$", "x", "+">>
  /\ ended = FALSE
  /\ peeked = NoPeek
  /\ macro_symbol_table =
       Insert([ch \in Chars |-> Unbound], "x", OperatorTok("+"))
  /\ lineno = 1
  /\ colno = 3
  /\ stack = <<ReadAllTokensFrame(<<>>, <<>>), ReadTokenFrame("loop")>>
  /\ ret = NoRet
  /\ phase = "lex"
  /\ lexed = NoRet
  /\ output = <<>>
  /\ result = NoRet

AlphabetMacro == {"$", "x", "0", "-"}

\* The runs of SpecLong, and the runs over AlphabetMacro of inputs that
\* begin with "$x+", taken up after these three characters.
InitMacro ==
  \/ InitLong
  \/ /\ alphabet = AlphabetMacro
     /\ max_len = MaxLenMacro
     /\ run = "preprocess"
     /\ line_width = 0
     /\ AfterFirstDefinition

SpecMacro == InitMacro /\ [][Next]_vars

\* ------------------------------------------------- vocabulary of the claims

Range(s) == {s[i] : i \in 1..Len(s)}

\* read_all_tokens has returned.
Returned == phase # "lex"

\* No pull of the run has yielded an upstream failure.
NoFailure == Fail \notin Range(pulled)

IsErr(r, e) == r.k = "Err" /\ r.v.e = e

\* The number of errors of kind e in the error err, at any depth.
RECURSIVE CountIn(_, _)
RECURSIVE CountInSeq(_, _, _)
CountInSeq(errs, i, e) ==
  IF i > Len(errs) THEN 0
  ELSE CountIn(errs[i], e) + CountInSeq(errs, i + 1, e)
CountIn(err, e) ==
  (IF err.e = e THEN 1 ELSE 0)
  + (IF err.e = "Group" THEN CountInSeq(err.errs, 1, e) ELSE 0)

\* The number of errors of kind e a returned value holds.
CountOf(r, e) == IF r.k = "Err" THEN CountIn(r.v, e) ELSE 0

\* Every aggregate in err, at any depth, has at least one entry.
RECURSIVE NoEmptyAggregate(_)
NoEmptyAggregate(err) ==
  err.e = "Group" =>
    /\ Len(err.errs) > 0
    /\ \A i \in 1..Len(err.errs) : NoEmptyAggregate(err.errs[i])

\* The number of characters of s that have the given role.
CountRole(s, field) ==
  Cardinality({i \in 1..Len(s) : s[i] \in Chars /\ config[s[i]] = field})

\* ----------------------------------------------------------------- C1

\* C1 (as claimed): whenever a pull yields an upstream failure, at top level,
\* in a group, after an escape prefix, as a macro symbol or body or in a
\* number, read_all_tokens returns Error::Input at once: the failure is the
\* last item pulled, and the result is neither Ok nor an aggregate.
C1_InputFailureIsFatal ==
  (Returned /\ ~NoFailure) =>
    /\ IsErr(lexed, "Input")
    /\ pulled[Len(pulled)] = Fail

\* ----------------------------------------------------------------- C2

IsPrefix(a, b) == Len(a) <= Len(b) /\ SubSeq(b, 1, Len(a)) = a

\* read_all_tokens' frame, the bottom of the stack while the lexer runs.
Bottom == stack[1]

\* C3: without an input failure read_all_tokens returns only once the
\* stream has ended; every error other than Input that a top-level
\* read_token returns is appended to its error list, the list only grows,
\* and the value returned is the aggregate of the whole list, in order, or
\* Ok(tokens) when the list is empty. read_group, given an error that is
\* not its closing delimiter, appends it and goes round its loop again.
C3_CompleteErrorReport ==
  /\ [](Returned /\ NoFailure => ended /\ peeked = NoPeek)
  /\ [][(InFrame("read_all_tokens") /\ HasRet /\ ret.k = "Err"
           /\ ret.v.e # "Input")
        => /\ phase' = "lex"
           /\ Bottom'.errors = Append(Bottom.errors, ret.v)]_vars
  /\ [][(phase = "lex" /\ phase' = "lex")
        => IsPrefix(Bottom.errors, Bottom'.errors)]_vars
  /\ [][(phase = "lex" /\ phase' # "lex" /\ ~IsErr(lexed', "Input"))
        => IF Len(Bottom.errors) > 0
           THEN lexed'.k = "Err" /\ lexed'.v = ErrGroup(Bottom.errors)
           ELSE lexed'.k = "Ok" /\ lexed'.v = Bottom.tokens]_vars
  /\ [][(InFrame("read_group") /\ HasRet /\ ret.k = "Err"
           /\ ret.v.e # "DelimiterUnopened")
        => /\ Len(stack') = Len(stack)
           /\ ~HasRet'
           /\ Top' = ReadGroupFrame(Top.group_tokens,
                                    Append(Top.errors, ret.v))]_vars

\* A run without input failure whose aggregate holds two errors, one of them
\* read after the other had been returned.
C3_Witness ==
  /\ NoFailure
  /\ IsErr(lexed, "Group")
  /\ Len(lexed.v.errs) >= 2
  /\ lexed.v.errs[1].e # "Group"
  /\ lexed.v.errs[2].e # lexed.v.errs[1].e

\* ----------------------------------------------------------------- C4

Role(s, i) == IF s[i] \in Chars THEN config[s[i]] ELSE NoField

\* The input has no escape prefix, and the symbol of every macro definition
\* is an operator or an unclassified character: every delimiter and prefix
\* of the input is read in its role.
RolesAsWritten(s) ==
  \A i \in 1..Len(s) :
    /\ Role(s, i) # EscapePrefix
    /\ (Role(s, i) = MacroPrefix /\ i < Len(s))
         => Role(s, i + 1) \in {Operator, NoField}

\* Scanning s from the left with `depth` groups open: the number of
\* group-end delimiters met with no group open, and the number of groups
\* left open at the end.
RECURSIVE ScanGroups(_, _, _, _)
ScanGroups(s, i, depth, unopened) ==
  IF i > Len(s) THEN [unopened |-> unopened, open |-> depth]
  ELSE CASE Role(s, i) = GroupStartDelimiter ->
              ScanGroups(s, i + 1, depth + 1, unopened)
         [] Role(s, i) = GroupEndDelimiter ->
              IF depth = 0 THEN ScanGroups(s, i + 1, 0, unopened + 1)
              ELSE ScanGroups(s, i + 1, depth - 1, unopened)
         [] OTHER -> ScanGroups(s, i + 1, depth, unopened)

UnopenedEnds(s) == ScanGroups(s, 1, 0, 0).unopened
OpenAtEnd(s) == ScanGroups(s, 1, 0, 0).open

\* The malformed constructs of the claim: a number prefix with no digit
\* after it; a macro prefix whose symbol or body is missing, or whose body is
\* cut off by a group end; an empty group; an unclosed group; a group end
\* with no group open.
Malformed(s) ==
  \/ \E i \in 1..Len(s) :
       /\ Role(s, i) = NumberPrefix
       /\ (i = Len(s) \/ ~IsAsciiDigit(s[i + 1]))
  \/ \E i \in 1..Len(s) :
       /\ Role(s, i) = MacroPrefix
       /\ (i + 2 > Len(s) \/ Role(s, i + 2) = GroupEndDelimiter)
  \/ \E i \in 1..(Len(s) - 1) :
       Role(s, i) = GroupStartDelimiter /\ Role(s, i + 1) = GroupEndDelimiter
  \/ OpenAtEnd(s) > 0
  \/ UnopenedEnds(s) > 0

\* C4 (as claimed): for an input without input failures that holds a
\* malformed construct, among them a macro definition in a group whose body
\* is cut off by the group's end, read_all_tokens returns an error.
C4_NoMalformedConstructDropped ==
  (Returned /\ NoFailure /\ RolesAsWritten(pulled) /\ Malformed(pulled))
    => lexed.k = "Err"

\* ----------------------------------------------------------------- C5

\* In a step, char_iter hands an item to next_char, and which one.
Consumes ==
  /\ peeked' = NoPeek
  /\ peeked # NoPeek \/ Len(pulled') > Len(pulled)
Taken == IF peeked # NoPeek THEN peeked ELSE pulled'[Len(pulled')]
TakesBound ==
  Consumes /\ Taken \in Chars /\ macro_symbol_table[Taken] # Unbound

C6_NothingEmittedOnFailure ==
  /\ phase \in {"lex", "lexed"} => output = <<>>
  /\ (phase = "done" /\ lexed.k = "Err")
       => output = <<>> /\ result.k = "Err" /\ result.v = lexed.v

\* A failed run that had read an operator before the error.
C6_Witness ==
  /\ phase = "done"
  /\ lexed.k = "Err"
  /\ Len(pulled) >= 2
  /\ Role(pulled, 1) = Operator

\* ----------------------------------------------------------------- C7

\* The number of read_group calls in progress.
GroupFrames ==
  Cardinality({i \in 1..Len(stack) : stack[i].fn = "read_group"})

RECURSIVE CountInFrames(_, _)
CountInFrames(i, e) ==
  IF i > Len(stack) THEN 0
  ELSE (IF stack[i].fn \in {"read_all_tokens", "read_group"}
        THEN CountInSeq(stack[i].errors, 1, e) ELSE 0)
       + CountInFrames(i + 1, e)

\* The number of errors of kind e the lexer holds: in the error lists of the
\* calls in progress, in the value being returned, in its final value.
Held(e) == CountInFrames(1, e) + CountOf(ret, e) + CountOf(lexed, e)

\* C7: a read_group that meets the end of the stream returns an aggregate
\* whose last entry is DelimiterUnclosed. No DelimiterUnclosed exists before
\* the stream has ended; from then on every group still open adds exactly
\* one and none is lost, so that k open groups give k of them, and no
\* DelimiterUnopened is added.
C7_UnclosedGroupsReported ==
  /\ [][(InFrame("read_group") /\ HasRet /\ ret.k = "None")
        => /\ stack' = Callers
           /\ IsErr(ret', "Group")
           /\ ret'.v.errs[Len(ret'.v.errs)].e = "DelimiterUnclosed"]_vars
  /\ [](~ended => Held("DelimiterUnclosed") = 0)
  /\ [][ended => /\ Held("DelimiterUnclosed")' + GroupFrames'
                    = Held("DelimiterUnclosed") + GroupFrames
                 /\ Held("DelimiterUnopened")' = Held("DelimiterUnopened")
       ]_vars

\* Two groups were open at the end of the input and each has reported its
\* own DelimiterUnclosed.
C7_Witness ==
  /\ Returned
  /\ CountOf(lexed, "DelimiterUnclosed") = 2
  /\ CountOf(lexed, "DelimiterUnopened") = 0

\* ----------------------------------------------------------------- C8

\* The number of direct entries of kind e of the aggregate r.
DirectCount(r, e) ==
  IF IsErr(r, "Group")
  THEN Cardinality({i \in 1..Len(r.v.errs) : r.v.errs[i].e = e})
  ELSE 0

\* C8 (as claimed): over an input without input failures, read_all_tokens
\* reports a DelimiterUnopened if and only if a group-end delimiter appears
\* in the input with no group open.
C8_UnopenedIffUnmatchedEnd ==
  (Returned /\ NoFailure) =>
    (CountOf(lexed, "DelimiterUnopened") > 0 <=> UnopenedEnds(pulled) > 0)

\* C8 (amended): when read_all_tokens does not return Error::Input and every
\* delimiter of the input is read in its role (no escape prefix, macro
\* symbols are operators or unclassified), its aggregate has exactly one
\* DelimiterUnopened entry for each group-end delimiter met with no group
\* open. In every run, a DelimiterUnopened given to read_group ends that
\* group and is entered in no aggregate below the top level.
C8_UnopenedOnlyAtTopLevel ==
  /\ []((Returned /\ ~IsErr(lexed, "Input") /\ RolesAsWritten(pulled))
        => DirectCount(lexed, "DelimiterUnopened") = UnopenedEnds(pulled))
  /\ [](/\ CountOf(lexed, "DelimiterUnopened")
           = DirectCount(lexed, "DelimiterUnopened")
        /\ IsErr(ret, "Group") => CountOf(ret, "DelimiterUnopened") = 0
        /\ \A i \in 1..Len(stack) :
             stack[i].fn = "read_group"
               => CountInSeq(stack[i].errors, 1, "DelimiterUnopened") = 0)
  /\ [][(InFrame("read_group") /\ HasRet /\ IsErr(ret, "DelimiterUnopened"))
        => /\ stack' = Callers
           /\ CountOf(ret', "DelimiterUnopened") = 0]_vars

\* A group has taken its own closing delimiter and the next one, met with
\* no group open, is the one error of the run.
C8_Witness ==
  /\ Returned
  /\ RolesAsWritten(pulled)
  /\ CountRole(pulled, GroupStartDelimiter) = 1
  /\ CountRole(pulled, GroupEndDelimiter) = 2
  /\ IsErr(lexed, "Group")
  /\ Len(lexed.v.errs) = 1
  /\ lexed.v.errs[1].e = "DelimiterUnopened"

\* ----------------------------------------------------------------- C9

\* The character at i is the first of a token: an operator, a number prefix
\* or a group start.
TokenStart(s, i) ==
  /\ i <= Len(s)
  /\ Role(s, i) \in {Operator, NumberPrefix, GroupStartDelimiter}

\* The value of the digits of s from i on, up to the first non-digit.
RECURSIVE RunValue(_, _, _)
RunValue(s, i, acc) ==
  IF i > Len(s) \/ ~IsAsciiDigit(s[i]) THEN acc
  ELSE RunValue(s, i + 1, acc * 10 + DigitValue(s[i]))

\* The input of the claim: no input failure, the group delimiters balanced
\* and matched, every number prefix followed by a digit, every macro prefix
\* by a symbol and the first character of a body.
WellFormed(s) ==
  /\ NoFailure
  /\ UnopenedEnds(s) = 0
  /\ OpenAtEnd(s) = 0
  /\ \A i \in 1..Len(s) :
       Role(s, i) = NumberPrefix => (i < Len(s) /\ IsAsciiDigit(s[i + 1]))
  /\ \A i \in 1..Len(s) :
       Role(s, i) = MacroPrefix => TokenStart(s, i + 2)

RECURSIVE EscapedOnly(_, _)
EscapedOnly(s, i) ==
  IF i > Len(s) THEN TRUE
  ELSE CASE Role(s, i) = EscapePrefix ->
              i = Len(s) \/ (s[i + 1] \in Chars /\ EscapedOnly(s, i + 2))
         [] s[i] \in Chars /\ Role(s, i) = NoField -> EscapedOnly(s, i + 1)
         [] OTHER -> FALSE

\* C10: after the escape prefix read_token takes exactly one item from the
\* stream and goes back to the head of its loop with no value returned, no
\* macro bound and the position of its callers unchanged; when the stream
\* has ended there, read_token's next step returns None. An input made of
\* unclassified characters and escaped characters only gives no token, no
\* error and no output.
C10_EscapeSkipsOne ==
  /\ [][(InFrame("read_token") /\ Top.pc = "escape")
        => /\ peeked' = NoPeek
           /\ \/ Len(pulled') = Len(pulled) + 1 /\ ~ended'
              \/ pulled' = pulled /\ ended'
           /\ stack' = Append(Callers, ReadTokenFrame("loop"))
           /\ ~HasRet'
           /\ macro_symbol_table' = macro_symbol_table
           /\ lexed' = lexed /\ output' = output]_vars
  /\ [][(InFrame("read_token") /\ Top.pc = "loop" /\ ended)
        => (stack' = Callers /\ ret' = None)]_vars
  /\ []((Returned /\ EscapedOnly(pulled, 1))
        => (lexed = Ok(<<>>) /\ output = <<>>))

\* An escaped operator, delimiter or prefix has been skipped, and the run
\* has ended with no token and no error.
C10_Witness ==
  /\ phase = "done"
  /\ EscapedOnly(pulled, 1)
  /\ \E i \in 1..(Len(pulled) - 1) :
       /\ Role(pulled, i) = EscapePrefix
       /\ Role(pulled, i + 1) # NoField
       /\ (i = 1 \/ Role(pulled, i - 1) # EscapePrefix)
  /\ lexed = Ok(<<>>)

\* ----------------------------------------------------------------- C11

\* read_number returns in this step.
ReadNumberReturns == InFrame("read_number") /\ stack' = Callers

\* C11 (as claimed): when read_number returns with no digit read and no
\* input failure, it returns NumberMissing at the position the lexer had
\* when the number prefix had just been taken, whether a non-digit or the
\* end of the stream follows; with at least one digit, of a value that fits
\* usize, it returns the decimal value of the digits read.
C11_NumberMissingAtPrefix ==
  [][(ReadNumberReturns /\ ~IsErr(ret', "Input"))
     => /\ Top.number_string = <<>>
             => ret' = Err(NumberMissing(config, lineno, colno))
        /\ (/\ Top.number_string # <<>>
            /\ RunValue(Top.number_string, 1, 0) <= UsizeMax)
             => ret' = Ok(RunValue(Top.number_string, 1, 0))]_vars

\* ----------------------------------------------------------------- C12

\* C12: read_number returns only when no digit is next in the stream; when
\* the digits it has read denote a value above the maximum of usize it
\* returns NumberMissing, and a number it returns is the exact decimal value
\* of the digits read, never more than that maximum.
C12_OverflowIsAnError ==
  [][ReadNumberReturns
     => /\ ~(peeked' \in Chars /\ IsAsciiDigit(peeked'))
        /\ (RunValue(Top.number_string, 1, 0) > UsizeMax
              /\ ~IsErr(ret', "Input"))
             => IsErr(ret', "NumberMissing")
        /\ ret'.k = "Ok"
             => /\ ret'.v = RunValue(Top.number_string, 1, 0)
                /\ ret'.v <= UsizeMax]_vars

\* The digits after a number prefix denoted more than the maximum of usize,
\* and the one error of the run is NumberMissing.
C12_Witness ==
  /\ Returned
  /\ Len(pulled) >= 3
  /\ Role(pulled, 1) = NumberPrefix
  /\ \A i \in 2..Len(pulled) : IsAsciiDigit(pulled[i])
  /\ RunValue(pulled, 2, 0) > UsizeMax
  /\ IsErr(lexed, "Group")
  /\ Len(lexed.v.errs) = 1
  /\ lexed.v.errs[1].e = "NumberMissing"

\* ----------------------------------------------------------------- C13

\* s, n times in a row.
RECURSIVE Rep(_, _)
Rep(s, n) == IF n = 0 THEN <<>> ELSE s \o Rep(s, n - 1)

\* The operators the tokens from i on stand for, the token at i taken m
\* times: a group stands for its whole sequence, taken as often as the
\* number in front of it says, a token with no number in front once.
RECURSIVE Expand(_, _, _)
Expand(tokens, i, m) ==
  IF i > Len(tokens) THEN <<>>
  ELSE CASE tokens[i].t = "Number" -> Expand(tokens, i + 1, tokens[i].n)
         [] tokens[i].t = "Operator" ->
              Rep(<<tokens[i].c>>, m) \o Expand(tokens, i + 1, 1)
         [] tokens[i].t = "Group" ->
              Rep(Expand(tokens[i].g, 1, 1), m) \o Expand(tokens, i + 1, 1)

NotNL(c) == c # NL

\* The emitter has returned.
Emitted == phase = "done" /\ lexed.k = "Ok" /\ result = Ok("unit")

\* C13: the operators written are those the tokens stand for: a group with
\* n in front is walked whole n times (not at all for n = 0), nested groups
\* likewise, an operator with n in front is written n times, and the token
\* after either is taken once. Under preprocess that is the whole output;
\* under preprocess_and_align it is the output without its line breaks. In
\* every walk the multiplier at a token is the number in front of it, and 1
\* when no number is. The tokens of "#5+-#2(>#2(--#0(+++)))" give
\* "+++++->---->----". The walk in steps and write_token_iter as a function
\* write the same.
C13_MultiplierRepeats ==
  /\ Emitted =>
       /\ SelectSeq(output, NotNL) = Expand(lexed.v, 1, 1)
       /\ run = "preprocess" => output = Expand(lexed.v, 1, 1)
       /\ output = write_token_iter(lexed.v, run = "preprocess_and_align",
                                    line_width, Sink(<<>>, 0)).out
       /\ lexed.v = MultiplierExample
            => output = <<"+", "+", "+", "+", "+", "-", ">", "-", "-", "-",
                          "-", ">", "-", "-", "-", "-">>
  /\ phase = "emit" =>
       \A d \in 2..Len(stack) :
         (stack[d].pc = "for" \/ stack[d].left = stack[d].multiplier)
           => stack[d].multiplier =
                IF stack[d].i > 1 /\ stack[d].tokens[stack[d].i - 1].t = "Number"
                THEN stack[d].tokens[stack[d].i - 1].n
                ELSE 1

\* The tokens of the test preprocess_multiplier have been written.
C13_Witness ==
  /\ Emitted
  /\ lexed.v = MultiplierExample
  /\ Len(output) = 16

\* ----------------------------------------------------------------- C14

\* The tokens without every number that is directly followed by a number,
\* in the sequence and in every group of it.
RECURSIVE DropShadowed(_)
DropShadowed(tokens) ==
  IF tokens = <<>> THEN <<>>
  ELSE LET head == tokens[1]
           rest == DropShadowed(Tail(tokens))
       IN CASE head.t = "Group" -> <<GroupTok(DropShadowed(head.g))>> \o rest
            [] head.t = "Operator" -> <<head>> \o rest
            [] head.t = "Number" ->
                 IF Len(tokens) > 1 /\ tokens[2].t = "Number"
                 THEN rest ELSE <<head>> \o rest

\* C14: the emitter, once it has been given tokens, returns Ok(()) whatever
\* the tokens, and what it writes
\* for a sequence holding Number(n) directly followed by Number(k) is what
\* write_token_iter writes for the sequence without the Number(n).
C14_SecondNumberOverwrites ==
  (phase = "done" /\ lexed.k = "Ok") =>
    /\ result = Ok("unit")
    /\ output = write_token_iter(DropShadowed(lexed.v),
                                 run = "preprocess_and_align", line_width,
                                 Sink(<<>>, 0)).out

\* Number(2), Number(3) and an operator have been written: three times the
\* operator.
C14_Witness ==
  /\ Emitted
  /\ run = "preprocess"
  /\ lexed.v = <<Number(2), Number(3), OperatorTok("+")>>
  /\ output = <<"+", "+", "+">>

\* ----------------------------------------------------------------- C15

\* C15: under preprocess_and_align with width w >= 1 the one counter, held
\* by preprocess_and_align for all the walks, is at every moment the length
\* of the last, unterminated line of the output and less than w; the line
\* breaks of the output are exactly at the positions that w operators
\* precede, so that every terminated line holds w operators. The tokens of
\* "#6(#6(+))" at width 6 give six terminated lines of six '+'.
C15_LinesHoldWidthOperators ==
  (run = "preprocess_and_align" /\ line_width >= 1 /\ lexed.k = "Ok") =>
    /\ stack[1].line_len < line_width
    /\ stack[1].line_len = Len(output) % (line_width + 1)
    /\ \A p \in 1..Len(output) :
         output[p] = NL <=> p % (line_width + 1) = 0
    /\ (Emitted /\ lexed.v = AlignmentExample)
         => /\ Len(output) = 6 * (AlignmentExampleWidth + 1)
            /\ \A p \in 1..Len(output) : output[p] \in {"+", NL}

\* The tokens of the test preprocess_with_alignment have been written, the
\* last line ended.
C15_Witness ==
  /\ Emitted
  /\ run = "preprocess_and_align"
  /\ lexed.v = AlignmentExample
  /\ stack[1].line_len = 0
  /\ output[Len(output)] = NL

\* ----------------------------------------------------------------- C19

\* The tokens without the numbers that end the sequence or a group of it.
RECURSIVE DropTrailing(_)
DropTrailing(tokens) ==
  IF tokens = <<>> THEN <<>>
  ELSE LET head == tokens[1]
           rest == DropTrailing(Tail(tokens))
       IN CASE head.t = "Group" -> <<GroupTok(DropTrailing(head.g))>> \o rest
            [] head.t = "Operator" -> <<head>> \o rest
            [] head.t = "Number" ->
                 IF rest = <<>> THEN <<>> ELSE <<head>> \o rest

\* C19: every walk starts at its first token with multiplier 1, also the
\* walk of a group with a number in front and each repetition of it; the
\* return of a walk changes nothing in the walk that called it. What is
\* written is what write_token_iter writes for the tokens without the
\* numbers that end a group or the sequence.
C19_MultiplierIsLocal ==
  /\ [](phase = "emit" =>
          \A d \in 2..Len(stack) :
            (stack[d].i = 1 /\ stack[d].pc = "for")
              => stack[d].multiplier = 1)
  /\ [][Len(stack') > Len(stack)
        => /\ Top' = WriteTokenIterEntry(Top.tokens[Top.i].g)
           /\ stack'[Len(stack)].multiplier = Top.multiplier]_vars
  /\ [][Len(stack') < Len(stack) => stack' = Callers]_vars
  /\ [](Emitted =>
          output = write_token_iter(DropTrailing(lexed.v),
                                    run = "preprocess_and_align", line_width,
                                    Sink(<<>>, 0)).out)

\* A group that ends with a number has been written twice and the operator
\* after it once.
C19_Witness ==
  /\ Emitted
  /\ run = "preprocess"
  /\ lexed.v = <<Number(2),
                 GroupTok(<<OperatorTok("-"), Number(2)>>),
                 OperatorTok("+")>>
  /\ output = <<"-", "-", "+">>

\* ----------------------------------------------------------------- C16

\* The items taken from char_iter so far: those pulled, but for one that is
\* still in the lookahead slot.
Consumed ==
  IF peeked \in {NoPeek, END} THEN pulled
  ELSE SubSeq(pulled, 1, Len(pulled) - 1)

\* The index of the last newline of s, 0 when it has none.
RECURSIVE LastNewline(_, _)
LastNewline(s, i) ==
  IF i = 0 THEN 0 ELSE IF s[i] = NL THEN i ELSE LastNewline(s, i - 1)

\* C16 (as claimed): in a run without input failure, at every point lineno
\* is 1 plus the number of newlines consumed and colno the number of
\* characters consumed since the last newline, also after a pull that has
\* found the stream exhausted.
C16_PositionOfLastConsumed ==
  NoFailure =>
    /\ lineno = 1 + Cardinality({i \in 1..Len(Consumed) : Consumed[i] = NL})
    /\ colno = Len(Consumed) - LastNewline(Consumed, Len(Consumed))

\* ----------------------------------------------------------------- C17

IsOperatorChar(ch) == ch \in Chars /\ config[ch] = Operator

\* The Operator tokens of the operator characters of s, in order.
RECURSIVE OperatorsOf(_)
OperatorsOf(s) ==
  IF s = <<>> THEN <<>>
  ELSE (IF IsOperatorChar(s[1]) THEN <<OperatorTok(s[1])>> ELSE <<>>)
       \o OperatorsOf(Tail(s))

\* Every character of s is an operator or has no role.
OperatorsAndUnclassified(s) ==
  \A i \in 1..Len(s) : s[i] \in Chars /\ Role(s, i) \in {Operator, NoField}

\* C17: for every Config, an input of operators and characters with no role
\* is read to its end and read_all_tokens returns one Operator token for
\* each operator character, in input order; preprocess then writes exactly
\* the operator characters of the input, which is the input itself when it
\* has operators only and nothing when it is empty.
C17_OperatorsCopied ==
  (Returned /\ OperatorsAndUnclassified(pulled)) =>
    /\ ended
    /\ lexed = Ok(OperatorsOf(pulled))
    /\ (phase = "done" /\ run = "preprocess")
         => /\ result = Ok("unit")
            /\ output = SelectSeq(pulled, IsOperatorChar)
            /\ (\A i \in 1..Len(pulled) : IsOperatorChar(pulled[i]))
                 => output = pulled
            /\ pulled = <<>> => output = <<>>

\* An input of operators and unclassified characters, some of each, has
\* been written by preprocess.
C17_Witness ==
  /\ phase = "done"
  /\ run = "preprocess"
  /\ OperatorsAndUnclassified(pulled)
  /\ Len(pulled) = 4
  /\ IsOperatorChar(pulled[1])
  /\ ~IsOperatorChar(pulled[2])
  /\ Len(output) = 2

\* ----------------------------------------------------------------- C18

\* Every group of the tokens, at any depth, has at least one child.
RECURSIVE NoEmptyGroup(_)
NoEmptyGroup(tokens) ==
  \A i \in 1..Len(tokens) :
    tokens[i].t = "Group"
      => Len(tokens[i].g) > 0 /\ NoEmptyGroup(tokens[i].g)

\* The error list read_group leaves its loop with: the one it has collected
\* and, when the stream has ended, a DelimiterUnclosed after it.
ErrorsAtExit ==
  IF ret.k = "None"
  THEN Append(Top.errors, DelimiterUnclosed(config, lineno, colno))
  ELSE Top.errors

\* C18: read_group returns only at its closing delimiter or at the end of
\* the stream, and then the aggregate of its errors if it has any, else
\* GroupEmpty if it has read no token, else its tokens; a token read_token
\* gives it is put after those it has. No group of a token the lexer holds
\* or returns is empty, and the input of a group start directly followed by
\* a group end gives GroupEmpty, at the position of the group end, as the
\* one error of the run.
C18_GroupResult ==
  /\ [][(InFrame("read_group") /\ stack' = Callers)
        => /\ ret.k = "None" \/ IsErr(ret, "DelimiterUnopened")
           /\ ErrorsAtExit # <<>> => ret' = Err(ErrGroup(ErrorsAtExit))
           /\ (ErrorsAtExit = <<>> /\ Top.group_tokens = <<>>)
                => ret' = Err(GroupEmpty(config, lineno, colno))
           /\ (ErrorsAtExit = <<>> /\ Top.group_tokens # <<>>)
                => ret' = Ok(Top.group_tokens)]_vars
  /\ [][(InFrame("read_group") /\ ret.k = "Ok")
        => stack' = Append(Callers,
                      ReadGroupFrame(Append(Top.group_tokens, ret.v),
                                     Top.errors))]_vars
  /\ [](/\ lexed.k = "Ok" => NoEmptyGroup(lexed.v)
        /\ ret.k = "Ok" /\ InFrame("read_token") /\ Top.pc = "group"
             => Len(ret.v) > 0 /\ NoEmptyGroup(ret.v)
        /\ \A ch \in Chars :
             macro_symbol_table[ch] # Unbound
               => NoEmptyGroup(<<macro_symbol_table[ch]>>))
  /\ []((/\ Returned
         /\ Len(pulled) = 2
         /\ Role(pulled, 1) = GroupStartDelimiter
         /\ Role(pulled, 2) = GroupEndDelimiter)
        => lexed = Err(ErrGroup(<<GroupEmpty(config, 1, 2)>>)))

\* A group with a token and an error has been closed: its aggregate is the
\* one error of the run and the token is gone.
C18_Witness ==
  /\ Returned
  /\ Len(pulled) = 4
  /\ Role(pulled, 1) = GroupStartDelimiter
  /\ Role(pulled, 2) = Operator
  /\ Role(pulled, 3) = NumberPrefix
  /\ Role(pulled, 4) = GroupEndDelimiter
  /\ IsErr(lexed, "Group")
  /\ Len(lexed.v.errs) = 1
  /\ IsErr(Err(lexed.v.errs[1]), "Group")
  /\ Len(lexed.v.errs[1].errs) = 1
  /\ lexed.v.errs[1].errs[1].e = "NumberMissing"

\* ----------------------------------------------------------------- C20

\* read_token, called for the body of a macro definition, is at the head of
\* its loop.
ReadsBody ==
  /\ InFrame("read_token") /\ Top.pc = "loop"
  /\ Len(stack) > 1
  /\ stack[Len(stack) - 1].fn = "read_macro_definition"

\* C20: the macro table changes only when read_macro_definition has got the
\* body of a definition, and then only at the symbol defined, which is bound
\* to that body; every other binding, one made from this symbol's earlier
\* token included, stays as it is, and no binding is ever removed, at the
\* end of a group or elsewhere. A body that is an occurrence of a bound
\* character is the token that character is bound to at that moment, taken
\* from the table with nothing more read. So "$x+$0x$x-0" gives the one
\* token Operator('+').
C20_MacrosCopiedAtDefinition ==
  /\ [][macro_symbol_table' # macro_symbol_table
        => /\ InFrame("read_macro_definition") /\ Top.pc = "body"
           /\ ret.k = "Ok"
           /\ macro_symbol_table' =
                [macro_symbol_table EXCEPT ![Top.macro_symbol] = ret.v]]_vars
  /\ [][\A ch \in Chars :
          macro_symbol_table[ch] # Unbound
            => macro_symbol_table'[ch] # Unbound]_vars
  /\ [][(ReadsBody /\ TakesBound)
        => /\ ret' = Ok(macro_symbol_table[Taken])
           /\ stack' = Callers
           /\ Len(pulled') <= Len(pulled) + 1
           /\ macro_symbol_table' = macro_symbol_table]_vars
  /\ [][(InFrame("read_macro_definition") /\ Top.pc = "body" /\ ret.k = "Ok")
        => macro_symbol_table'[Top.macro_symbol] = ret.v]_vars
  /\ []((Returned
         /\ pulled = <<"$", "x", "+", "$", "0", "x", "$", "x", "-", "0">>)
        => /\ lexed = Ok(<<OperatorTok("+")>>)
           /\ macro_symbol_table["0"] = OperatorTok("+")
           /\ macro_symbol_table["x"] = OperatorTok("-"))

\* "0" was bound to the token of x, x has been bound anew, and "0" has been
\* read as the token x had.
C20_Witness ==
  /\ phase = "done"
  /\ pulled = <<"$", "x", "+", "$", "0", "x", "$", "x", "-", "0">>
  /\ macro_symbol_table["x"] = OperatorTok("-")
  /\ lexed = Ok(<<OperatorTok("+")>>)
  /\ output = <<"+">>

\* ----------------------------------------------------------------- C21

IsNL(c) == c = NL

\* What preprocess writes for the tokens.
PreprocessOutput(tokens) ==
  write_token_iter(tokens, FALSE, 0, Sink(<<>>, 0)).out

====
